---- MODULE Spec2Model ----
(***************************************************************************)
(* Fuel-transaction generator (dags/generate_fuel_exports.py) and the      *)
(* Airflow DAG that loads its batches into Postgres (dags/add_data.py).    *)
(*                                                                         *)
(* Units.  Money and fuel quantities are integers in cents (1/100).  A     *)
(* value drawn by random.uniform is an integer in 1/Scale units; with      *)
(* Scale a power of two every such value is a double, so Decimal(x) and    *)
(* round(x, 2) act on it exactly as the definitions below compute.  Time   *)
(* is an integer number of clock ticks (the microsecond field of           *)
(* datetime.now).                                                          *)
(***************************************************************************)
EXTENDS Integers, Sequences, FiniteSets, TLC

\* ------------------------------------------------------------------ bounds
Scale == 128
TicksPerSecond == 1
SecondsPerDay == 2
MaxClock == 2
MaxDraw == 2
MaxRows == 2
MaxRuns == 2

TicksPerDay == TicksPerSecond * SecondsPerDay

\* ------------------------------------------------- domain value pools
FUEL_TYPES ==
    << "HyperMatter", "Antimatter", "Hydrogen", "Deuterium", "Tri-Tachyon",
       "QuantumFlux", "Plasma", "DarkIon", "Helium-3" >>

SERVICE_MENU ==
    << "hull patch", "oxygen refill", "hyperdrive check", "radiation scrub",
       "life-support tune-up", "gyro recalibration", "sensor alignment",
       "cargo sealant", "RCS fuel", "shield recharge" >>

\* list(FRANCHISE_SHIPS.keys()): a dict keeps its insertion order.
FRANCHISE_KEYS ==
    << "Star Wars", "Mass Effect", "Halo", "Star Trek", "Firefly",
       "The Expanse", "Elite Dangerous", "No Man's Sky", "Dune",
       "Battlestar Galactica", "Star Citizen", "Alien" >>

FRANCHISE_SHIPS ==
    [f \in { FRANCHISE_KEYS[i] : i \in 1..Len(FRANCHISE_KEYS) } |->
        CASE f = "Star Wars" ->
                << "Millennium Falcon", "X-Wing", "Slave I", "TIE Advanced", "Ghost" >>
          [] f = "Mass Effect" ->
                << "SSV Normandy SR-1", "SSV Normandy SR-2", "Tempest" >>
          [] f = "Halo" ->
                << "Pillar of Autumn", "In Amber Clad", "Spirit of Fire" >>
          [] f = "Star Trek" ->
                << "USS Enterprise", "USS Defiant", "USS Voyager", "USS Discovery" >>
          [] f = "Firefly" -> << "Serenity" >>
          [] f = "The Expanse" -> << "Rocinante", "Canterbury", "Agatha King" >>
          [] f = "Elite Dangerous" -> << "Cobra Mk III", "Asp Explorer", "Anaconda" >>
          [] f = "No Man's Sky" ->
                << "Exotic S-Class", "Hauler C-Class", "Explorer A-Class" >>
          [] f = "Dune" -> << "Heighliner", "Ornithopter" >>
          [] f = "Battlestar Galactica" -> << "Galactica", "Pegasus", "Raptor" >>
          [] f = "Star Citizen" ->
                << "Constellation Andromeda", "Cutlass Black", "Carrack" >>
          [] f = "Alien" -> << "USCSS Nostromo", "USCSS Prometheus" >> ]

SPECIES ==
    << "Human", "Asari", "Turian", "Sangheili", "Vulcan", "Twi'lek",
       "Belter", "Kree", "Time Lord", "Zabrak", "Klingon", "Protoss" >>

\* string.ascii_uppercase[:8]
DOCK_LEVELS == << "A", "B", "C", "D", "E", "F", "G", "H" >>

\* ------------------------------------------------- the random source
\* random.choice(seq): seq[floor(random() * len(seq))]; u is the index drawn.
choice(seq, u) == seq[(u % Len(seq)) + 1]

SeqToSet(s) == { s[i] : i \in 1..Len(s) }

\* ------------------------------------------------- decimal arithmetic
\* Decimal.quantize(Decimal("0.01"), rounding=ROUND_HALF_UP) of the exact
\* non-negative rational num/den cents: the nearest cent, a tie going up.
quantize_half_even(num, den) ==
    LET q == num \div den
        r == num % den
    IN  IF 2 * r < den THEN q
        ELSE IF 2 * r > den THEN q + 1
        ELSE IF q % 2 = 0 THEN q ELSE q + 1

quantize_half_up(num, den) == (2 * num + den) \div (2 * den)

\* round(x, 2) of the double x = raw/Scale: Python rounds the exact value of
\* the double to the nearest 1/100, a tie going to the even neighbour.
py_round2(raw) == quantize_half_even(100 * raw, Scale)

\* money_decimal(minimum, maximum): Decimal(x) is the exact value of the
\* double x = raw/Scale, quantized to cents half-up.
money_decimal(raw) == quantize_half_up(100 * raw, Scale)

\* (Decimal(str(fuel_units)) * ppu).quantize(Decimal("0.01"), ROUND_HALF_UP):
\* the exact product of two cent amounts is fu * ppu / 100 cents.  It is
\* computed with fu split into whole units and cents, which is the same
\* integer and keeps every intermediate value small.
total_cost_round_down(fu, ppu) ==
    (fu \div 100) * ppu + ((fu % 100) * ppu) \div 100

total_cost_of(fu, ppu) ==
    (fu \div 100) * ppu + quantize_half_up((fu % 100) * ppu, 100)

\* ------------------------------------------------- field generators
random_ship_and_franchise_any(fu, su) ==
    LET franchise == choice(FRANCHISE_KEYS, fu)
        other == choice(FRANCHISE_KEYS, su)
    IN  << choice(FRANCHISE_SHIPS[other], su), franchise >>

random_ship_and_franchise(fu, su) ==
    LET franchise == choice(FRANCHISE_KEYS, fu)
        ship == choice(FRANCHISE_SHIPS[franchise], su)
    IN  << ship, franchise >>

random_dock_struct(bay, lu) == [bay |-> bay, level |-> choice(DOCK_LEVELS, lu)]

\* random.sample(SERVICE_MENU, k): k distinct entries; u is where the sample
\* starts in the menu.
random_services(k, u) == [i \in 1..k |-> choice(SERVICE_MENU, u + i - 1)]

\* datetime.now(utc).strftime("%Y%m%d%H%M%S%f") + "-" + 10 random characters:
\* the timestamp to the tick, and the suffix drawn.
random_uuid_like(now, rand) == [ts |-> now, rand |-> rand]

\* date(visited.year, visited.month, visited.day)
date_of(t) == t \div TicksPerDay

\* ------------------------------------------------- record assembler
\* d holds what one call draws from the random source and how many ticks the
\* clock moves before line 122 reads it (dt_visit) and between that read and
\* the read of line 86 (dt_id).  now is the clock when the call starts.
make_record_second_clock(d, now) ==
    LET sf == random_ship_and_franchise(d.franchise_u, d.ship_u)
        fuel_units == py_round2(d.fuel_raw)
        ppu == money_decimal(d.ppu_raw)
        visited == now + d.dt_visit
    IN  [ transaction_id |-> random_uuid_like(visited + d.dt_id, d.rand),
          station_id |-> d.station_id,
          dock |-> random_dock_struct(d.bay, d.level_u),
          ship_name |-> sf[1],
          franchise |-> sf[2],
          captain_name |-> d.captain,
          species |-> choice(SPECIES, d.species_u),
          fuel_type |-> choice(FUEL_TYPES, d.fuel_type_u),
          fuel_units |-> fuel_units,
          price_per_unit |-> ppu,
          total_cost |-> total_cost_of(fuel_units, ppu),
          services |-> random_services(d.services_k, d.services_u),
          is_emergency |-> d.emergency,
          visited_at |-> visited,
          arrival_date |-> date_of(visited + d.dt_id),
          coords_x |-> d.coords_x,
          coords_y |-> d.coords_y ]

make_record(d, now) ==
    LET sf == random_ship_and_franchise(d.franchise_u, d.ship_u)
        fuel_units == py_round2(d.fuel_raw)
        ppu == money_decimal(d.ppu_raw)
        total == total_cost_of(fuel_units, ppu)
        visited == now + d.dt_visit
    IN  [ transaction_id |-> random_uuid_like(visited + d.dt_id, d.rand),
          station_id |-> d.station_id,
          dock |-> random_dock_struct(d.bay, d.level_u),
          ship_name |-> sf[1],
          franchise |-> sf[2],
          captain_name |-> d.captain,
          species |-> choice(SPECIES, d.species_u),
          fuel_type |-> choice(FUEL_TYPES, d.fuel_type_u),
          fuel_units |-> fuel_units,
          price_per_unit |-> ppu,
          total_cost |-> total,
          services |-> random_services(d.services_k, d.services_u),
          is_emergency |-> d.emergency,
          visited_at |-> visited,
          arrival_date |-> date_of(visited),
          coords_x |-> d.coords_x,
          coords_y |-> d.coords_y ]

\* What one call of make_record may draw.  The uniform draws are given in
\* 1/Scale units: fuel in [50, 5000], price in [10, 800].
FuelRaws ==
    { 50 * Scale + Scale \div 2, 100 * Scale,
      1234 * Scale + (71 * Scale) \div 128, 5000 * Scale }

PpuRaws ==
    { 10 * Scale + 1, 12 * Scale + (45 * Scale) \div 128,
      799 * Scale + (127 * Scale) \div 128, 800 * Scale }

BaseDraw ==
    [ franchise_u |-> 0, ship_u |-> 0, species_u |-> 0, fuel_type_u |-> 0,
      fuel_raw |-> 100 * Scale, ppu_raw |-> 12 * Scale + (45 * Scale) \div 128,
      dt_visit |-> 0, dt_id |-> 0, station_id |-> 1000, bay |-> 1,
      level_u |-> 0, captain |-> "Ada Vance", services_k |-> 2,
      services_u |-> 0, emergency |-> FALSE, coords_x |-> 0, coords_y |-> 0,
      rand |-> 1 ]

RecordDraws ==
    { [BaseDraw EXCEPT !.franchise_u = x[1], !.ship_u = x[2], !.fuel_raw = x[3],
                       !.ppu_raw = x[4], !.dt_visit = x[5], !.dt_id = x[6]] :
        x \in (0..(MaxDraw - 1)) \X (0..(MaxDraw - 1)) \X FuelRaws \X PpuRaws
              \X {0, 1} \X {0, 1} }

\* range(n_rows): the number of iterations of the comprehension of line 149.
range_len_from_one(n_rows) == IF n_rows > 1 THEN n_rows - 1 ELSE 0

range_len(n_rows) == IF n_rows > 0 THEN n_rows ELSE 0

\* The ticks the clock moves during the first k calls of make_record.
RECURSIVE elapsed(_, _)
elapsed(ds, k) ==
    IF k = 0 THEN 0 ELSE elapsed(ds, k - 1) + ds[k].dt_visit + ds[k].dt_id

\* [make_record() for _ in range(n_rows)]: ds holds the draws, one per call,
\* and each call starts at the clock the previous one left.
make_batch(n_rows, ds, now) ==
    [i \in 1..range_len(n_rows) |-> make_record(ds[i], now + elapsed(ds, i - 1))]

\* The clock after the batch drawn as ds was generated at now.
clock_after(records, ds, now) == now + elapsed(ds, Len(records))

\* ------------------------------------------------- batch + schema writer
\* build_schema(): the column names, in order, and the fields of the dock struct.
SCHEMA_NAMES ==
    << "transaction_id", "station_id", "dock", "ship_name", "franchise",
       "captain_name", "species", "fuel_type", "fuel_units", "price_per_unit",
       "total_cost", "services", "is_emergency", "visited_at", "arrival_date",
       "coords_x", "coords_y" >>

DOCK_FIELDS == << "bay", "level" >>

\* pa.Table.from_pylist(records, schema=schema) takes, for every schema column,
\* row[name] when the row has the key and a null otherwise, and drops the keys
\* the schema does not name; a struct value is converted from its mapping the
\* same way.  Every column of the schema is nullable, so a missing key is no
\* error.  The number of null cells the table of one record holds:
nulls_of(r) ==
    Cardinality(SeqToSet(SCHEMA_NAMES) \ DOMAIN r)
    + (IF "dock" \in DOMAIN r
       THEN Cardinality(SeqToSet(DOCK_FIELDS) \ DOMAIN r.dock) ELSE 0)

RECURSIVE sum_nulls(_, _)
sum_nulls(records, i) ==
    IF i > Len(records) THEN 0 ELSE nulls_of(records[i]) + sum_nulls(records, i + 1)

from_pylist(records) ==
    [ num_rows |-> Len(records), num_columns |-> Len(SCHEMA_NAMES),
      nulls |-> sum_nulls(records, 1) ]

\* strftime("%Y%m%d_%H%M%S"): the file name holds the time to the second.
filename_at(now) == now \div TicksPerSecond

\* write_parquet(records, out_dir, schema) at clock now, on the directory state
\* dir and the files fs.  pq.write_table raises when the directory is absent
\* (nothing is created) or when the write fails (io_fails: the file it opened
\* stays, cut short); no exception is caught.
write_parquet(records, now, dir, fs, io_fails) ==
    LET tbl == from_pylist(records)
        name == filename_at(now)
        others == [n \in DOMAIN fs \ {name} |-> fs[n]]
    IN  IF ~dir THEN [ok |-> FALSE, files |-> fs]
        ELSE IF io_fails
        THEN [ok |-> FALSE,
              files |-> [n \in DOMAIN fs \cup {name} |->
                            IF n = name
                            THEN [rows |-> 0, cols |-> 0, nulls |-> 0,
                                  readable |-> FALSE]
                            ELSE fs[n]]]
        ELSE [ok |-> TRUE,
              files |-> [n \in DOMAIN fs \cup {name} |->
                            IF n = name
                            THEN [rows |-> tbl.num_rows, cols |-> tbl.num_columns,
                                  nulls |-> tbl.nulls, readable |-> TRUE]
                            ELSE fs[n]]]

\* ------------------------------------------------- sink adapter
\* The column list of the INSERT statement (lines 84-86).
INSERT_COLUMNS ==
    << "transaction_id", "station_id", "dock_bay", "dock_level", "ship_name",
       "franchise", "captain_name", "species", "fuel_type", "fuel_units",
       "price_per_unit", "total_cost", "services", "is_emergency", "visited_at",
       "arrival_date", "coords_x", "coords_y" >>

\* The column types of CREATE TABLE fuel_transactions (lines 34-51).
column_type(c) ==
    CASE c \in {"transaction_id", "station_id", "dock_bay", "dock_level",
                "ship_name", "franchise", "captain_name", "species",
                "fuel_type"} -> "VARCHAR(255)"
      [] c = "fuel_units" -> "INTEGER"
      [] c \in {"price_per_unit", "total_cost"} -> "DECIMAL(10,2)"
      [] c = "services" -> "TEXT[]"
      [] c = "is_emergency" -> "BOOLEAN"
      [] c = "visited_at" -> "TIMESTAMP"
      [] c = "arrival_date" -> "DATE"
      [] c \in {"coords_x", "coords_y"} -> "DECIMAL(10,6)"

RECURSIVE significant_digits(_)
significant_digits(n) == IF n < 10 THEN 1 ELSE 1 + significant_digits(n \div 10)

RECURSIVE drop_digits(_, _)
drop_digits(n, k) == IF k <= 0 THEN n ELSE 10 * drop_digits(n \div 10, k - 1)

\* float(Decimal) of a cent amount, as psycopg2 then writes it (repr): a double
\* gives back every decimal of at most 15 significant digits, and keeps about
\* that many of a longer one.
py_float(cents) ==
    IF significant_digits(cents) <= 15 THEN cents
    ELSE drop_digits(cents, significant_digits(cents) - 15)

\* The row tuple of lines 93-112.
row_tuple(r) ==
    << r.transaction_id, r.station_id, r.dock.bay, r.dock.level, r.ship_name,
       r.franchise, r.captain_name, r.species, r.fuel_type, r.fuel_units,
       py_float(r.price_per_unit), py_float(r.total_cost), r.services,
       r.is_emergency, r.visited_at, r.arrival_date, r.coords_x, r.coords_y >>

\* What Postgres stores of a value given to a column.  An INTEGER column takes
\* the numeric literal rounded to the nearest whole unit; the value kept is
\* given in cents again.  The other columns keep the model's values as they are
\* (a DECIMAL(10,2) holds a cent amount exactly).
pg_integer(cents) == 100 * ((cents + 50) \div 100)

stored_value(c, v) == IF column_type(c) = "INTEGER" THEN pg_integer(v) ELSE v

\* A DECIMAL(p,s) column rejects a value of p - s or more integer digits
\* (numeric field overflow).  Money is in cents, coordinates in whole units.
column_accepts(c, v) ==
    CASE column_type(c) = "DECIMAL(10,2)" -> v \div 100 < 100000000
      [] column_type(c) = "DECIMAL(10,6)" -> (v < 10000 /\ v > -10000)
      [] OTHER -> TRUE

stored_row(values) ==
    [c \in SeqToSet(INSERT_COLUMNS) |->
        LET i == CHOOSE j \in 1..Len(INSERT_COLUMNS) : INSERT_COLUMNS[j] = c
        IN  stored_value(c, values[i])]

row_accepted(values) ==
    \A i \in 1..Len(INSERT_COLUMNS) : column_accepts(INSERT_COLUMNS[i], values[i])

\* INSERT ... ON CONFLICT (transaction_id) DO NOTHING of one row into the rows
\* tbl: a row whose key is present is skipped.
insert_or_replace(tbl, row) ==
    { t \in tbl : t.transaction_id # row.transaction_id } \cup {row}

insert_do_nothing(tbl, row) ==
    IF \E t \in tbl : t.transaction_id = row.transaction_id
    THEN tbl ELSE tbl \cup {row}

\* execute_values(cursor, sql, values): the rows in order, each seeing the ones
\* before it.
RECURSIVE execute_values(_, _, _)
execute_values(tbl, values, i) ==
    IF i > Len(values) THEN tbl
    ELSE execute_values(insert_do_nothing(tbl, stored_row(values[i])), values, i + 1)

\* ------------------------------------------------- state
VARIABLES
    clock,          \* the UTC clock, in ticks
    rec,            \* << the record the last make_record call returned >>
    dir_exists,     \* the output directory exists
    files,          \* file name |-> what the file holds
    table_exists,   \* fuel_transactions was created
    table,          \* the rows of fuel_transactions
    dag_pc,         \* the DAG run: "idle", or "export" once create_table succeeded
    runs,           \* DAG runs started
    task,           \* how the last task invocation ended
    main_pc,        \* main(): "start", "loop" (line 186), "sleep" (line 188), "done"
    args,           \* main()'s parsed command line
    intr_at,        \* where main() was when Ctrl+C arrived, or "none"
    main_exit,      \* "running", "clean", "KeyboardInterrupt", "error"
    wp_in,          \* the batch handed to write_parquet on its own
    wp_out          \* whether that call was made and whether it returned

vars ==
    << clock, rec, dir_exists, files, table_exists, table, dag_pc, runs, task,
       main_pc, args, intr_at, main_exit, wp_in, wp_out >>

dag_vars == << dir_exists, files, table_exists, table, dag_pc, runs, task >>
main_vars == << main_pc, args, intr_at, main_exit >>
wp_vars == << wp_in, wp_out >>

NoTask ==
    [ name |-> "none", fault |-> "none", outcome |-> "none", conn |-> "none",
      rows_per_file |-> 0, records |-> << >>, wrote |-> FALSE, sent |-> 0,
      before |-> {} ]

RowArgs == (-1)..MaxRows

\* The defaults of --rows-per-file and --period-seconds.
DefaultArgs == [rows_per_file |-> 300, period_seconds |-> 60]

\* What the draws of a batch range over: two fuel quantities at one instant
\* (one transaction id, two rows), and one a tick later.
BatchDraws ==
    { [BaseDraw EXCEPT !.fuel_raw = x[1], !.dt_visit = x[2]] :
        x \in { << 50 * Scale + Scale \div 2, 0 >>, << 100 * Scale, 0 >>,
                << 100 * Scale, 1 >> } }

\* The draws make_batch(n_rows) consumes: one per call of make_record.
DrawStreams(n_rows) == [1..range_len(n_rows) -> BatchDraws]

InitWorld ==
    /\ rec = << >>
    /\ dir_exists = FALSE
    /\ files = << >>
    /\ table_exists = FALSE
    /\ table = {}
    /\ dag_pc = "idle"
    /\ runs = 0
    /\ task = NoTask
    /\ main_pc = "start"
    /\ intr_at = "none"
    /\ main_exit = "running"
    /\ wp_in = << >>
    /\ wp_out = [called |-> FALSE, ok |-> FALSE]

\* Time passes between the calls of the scheduler and while main() runs.
Tick ==
    /\ clock < MaxClock
    /\ clock' = clock + 1
    /\ UNCHANGED << rec, dag_vars, main_vars, wp_vars >>

\* ------------------------------------------------- make_record on its own
InitRecord ==
    /\ clock \in 0..1
    /\ args = DefaultArgs
    /\ InitWorld

CallMakeRecord ==
    /\ \E d \in RecordDraws :
          /\ clock + d.dt_visit + d.dt_id <= MaxClock
          /\ rec' = << make_record(d, clock) >>
          /\ clock' = clock + d.dt_visit + d.dt_id
    /\ UNCHANGED << dag_vars, main_vars, wp_vars >>

NextRecord == CallMakeRecord

SpecRecord == InitRecord /\ [][NextRecord]_vars

\* ------------------------------------------------- the DAG create_data
\* create_table(): fault is the call that raises, if any.  Nothing is caught
\* and nothing is closed but by lines 59-60.
create_table ==
    /\ dag_pc = "idle"
    /\ runs < MaxRuns
    /\ runs' = runs + 1
    /\ \E fault \in {"none", "connect", "execute", "commit"} :
          /\ table_exists' = (table_exists \/ fault = "none")
          /\ dag_pc' = IF fault = "none" THEN "export" ELSE "idle"
          /\ task' = [NoTask EXCEPT
                        !.name = "create_table",
                        !.fault = fault,
                        !.outcome = IF fault = "none" THEN "success" ELSE "error",
                        !.conn = CASE fault = "connect" -> "none"
                                   [] fault = "none" -> "closed"
                                   [] OTHER -> "open"]
    /\ UNCHANGED << clock, rec, dir_exists, files, table, main_vars, wp_vars >>

\* export_file(rows_per_file, out_dir): runs once create_table has succeeded
\* (create_table() >> export_file()).  fault is the call that raises, if any.
export_file ==
    /\ dag_pc = "export"
    /\ dag_pc' = "idle"
    /\ \E rows_per_file \in RowArgs :
       \E ds \in DrawStreams(rows_per_file) :
          LET records == make_batch(rows_per_file, ds, clock)
              now == clock_after(records, ds, clock)
              values == [i \in 1..Len(records) |-> row_tuple(records[i])]
              \* execute_values sends nothing for an empty list
              rejected ==
                  /\ values # << >>
                  /\ \/ ~table_exists
                     \/ \E i \in 1..Len(values) : ~row_accepted(values[i])
              result == [NoTask EXCEPT !.name = "export_file",
                                       !.rows_per_file = rows_per_file,
                                       !.before = table]
          IN  /\ now <= MaxClock
              /\ \E fault \in {"none", "mkdir", "write", "connect", "execute",
                               "commit"} :
                    LET wp == write_parquet(records, now, TRUE, files,
                                            fault = "write")
                        stmt_fails ==
                            rejected \/ (values # << >> /\ fault = "execute")
                        ended == [result EXCEPT !.fault = fault]
                    IN  IF fault = "mkdir"
                        THEN /\ task' = [ended EXCEPT !.outcome = "error"]
                             /\ UNCHANGED << clock, dir_exists, files, table >>
                        ELSE /\ dir_exists' = TRUE
                             /\ clock' = now
                             /\ files' = wp.files
                             /\ IF ~wp.ok \/ fault = "connect"
                                THEN /\ task' = [ended EXCEPT
                                                   !.outcome = "error",
                                                   !.records = records,
                                                   !.wrote = wp.ok]
                                     /\ table' = table
                                ELSE IF stmt_fails \/ fault = "commit"
                                THEN /\ task' = [ended EXCEPT
                                                   !.outcome = "error",
                                                   !.records = records,
                                                   !.wrote = TRUE,
                                                   !.conn = "open",
                                                   !.sent = Len(values)]
                                     /\ table' = table
                                ELSE /\ task' = [ended EXCEPT
                                                   !.outcome = "success",
                                                   !.records = records,
                                                   !.wrote = TRUE,
                                                   !.conn = "closed",
                                                   !.sent = Len(values)]
                                     /\ table' = execute_values(table, values, 1)
    /\ UNCHANGED << rec, table_exists, runs, main_vars, wp_vars >>

InitDag ==
    /\ clock = 0
    /\ args = DefaultArgs
    /\ InitWorld

NextDag == create_table \/ export_file

SpecDag == InitDag /\ [][NextDag]_vars

\* ------------------------------------------------- main(), the long-running mode
\* The try of line 184 covers the loop, lines 185-188.
in_try_batch_only(pc) == pc = "loop"

in_try(pc) == pc \in {"loop", "sleep"}

\* Lines 166-182: the command line is parsed and the directory ensured.
MainSetup ==
    /\ main_exit = "running"
    /\ main_pc = "start"
    /\ \E mkdir_fails \in BOOLEAN :
          IF mkdir_fails
          THEN /\ main_exit' = "error"
               /\ main_pc' = "done"
               /\ UNCHANGED dir_exists
          ELSE /\ dir_exists' = TRUE
               /\ main_pc' = "loop"
               /\ UNCHANGED main_exit
    /\ UNCHANGED << clock, rec, files, table_exists, table, dag_pc, runs, task,
                    args, intr_at, wp_vars >>

\* Lines 186-187: one batch, one file.  An exception of write_parquet is not
\* caught by the except of line 189 and ends the run.
MainIterate ==
    /\ main_exit = "running"
    /\ main_pc = "loop"
    /\ \E ds \in DrawStreams(args.rows_per_file), io_fails \in BOOLEAN :
          LET records == make_batch(args.rows_per_file, ds, clock)
              now == clock_after(records, ds, clock)
              wp == write_parquet(records, now, dir_exists, files, io_fails)
          IN  /\ now <= MaxClock
              /\ clock' = now
              /\ files' = wp.files
              /\ main_pc' = IF wp.ok THEN "sleep" ELSE "done"
              /\ main_exit' = IF wp.ok THEN "running" ELSE "error"
    /\ UNCHANGED << rec, dir_exists, table_exists, table, dag_pc, runs, task,
                    args, intr_at, wp_vars >>

\* Line 188: time.sleep raises ValueError for a negative length.
MainSleep ==
    /\ main_exit = "running"
    /\ main_pc = "sleep"
    /\ IF args.period_seconds < 0
       THEN /\ main_exit' = "error"
            /\ main_pc' = "done"
            /\ UNCHANGED clock
       ELSE /\ clock + args.period_seconds * TicksPerSecond <= MaxClock
            /\ clock' = clock + args.period_seconds * TicksPerSecond
            /\ main_pc' = "loop"
            /\ UNCHANGED main_exit
    /\ UNCHANGED << rec, dag_vars, args, intr_at, wp_vars >>

\* Ctrl+C: KeyboardInterrupt is raised where main() is.  Inside the try it is
\* caught by line 189; before it, nothing catches it.  During the setup the
\* directory may or may not have been made yet; during a write the file may be
\* left cut short.
Interrupt ==
    /\ main_exit = "running"
    /\ main_pc \in {"start", "loop", "sleep"}
    /\ intr_at' = main_pc
    /\ main_pc' = "done"
    /\ main_exit' = IF in_try(main_pc) THEN "clean" ELSE "KeyboardInterrupt"
    /\ \E made \in BOOLEAN, cut \in BOOLEAN :
          /\ dir_exists' = (dir_exists \/ (main_pc = "start" /\ made))
          /\ files' = IF main_pc = "loop" /\ cut
                      THEN write_parquet(<< >>, clock, dir_exists, files, TRUE).files
                      ELSE files
    /\ UNCHANGED << clock, rec, table_exists, table, dag_pc, runs, task, args,
                    wp_vars >>

InitMain ==
    /\ clock = 0
    /\ args \in [rows_per_file : RowArgs, period_seconds : {-1, 0, 1}]
    /\ InitWorld

NextMain == MainSetup \/ MainIterate \/ MainSleep \/ Interrupt \/ Tick

SpecMain == InitMain /\ [][NextMain]_vars

\* ------------------------------------------------- write_parquet on its own
\* Records as a caller may hand them over: as make_record builds them, with a
\* column missing, with a key the schema does not name, and with a dock that
\* lacks a field.
GoodRecord == make_record(BaseDraw, 0)

without(r, k) == [n \in DOMAIN r \ {k} |-> r[n]]

with_extra(r, k) == [n \in DOMAIN r \cup {k} |-> IF n = k THEN 0 ELSE r[n]]

WriteRecords ==
    { GoodRecord,
      without(GoodRecord, "species"),
      with_extra(GoodRecord, "warp_factor"),
      [GoodRecord EXCEPT !.dock = [bay |-> 1]] }

conforms(r) ==
    /\ DOMAIN r = SeqToSet(SCHEMA_NAMES)
    /\ DOMAIN r.dock = SeqToSet(DOCK_FIELDS)

CallWriteParquet ==
    /\ ~wp_out.called
    /\ \E io_fails \in BOOLEAN :
          LET wp == write_parquet(wp_in, clock, dir_exists, files, io_fails)
          IN  /\ files' = wp.files
              /\ wp_out' = [called |-> TRUE, ok |-> wp.ok]
    /\ UNCHANGED << clock, rec, dir_exists, table_exists, table, dag_pc, runs,
                    task, main_vars, wp_in >>

InitWrite ==
    /\ clock \in 0..MaxClock
    /\ args = DefaultArgs
    /\ rec = << >>
    /\ dir_exists \in BOOLEAN
    /\ files = << >>
    /\ table_exists = FALSE
    /\ table = {}
    /\ dag_pc = "idle"
    /\ runs = 0
    /\ task = NoTask
    /\ main_pc = "start"
    /\ intr_at = "none"
    /\ main_exit = "running"
    /\ wp_in \in UNION { [1..n -> WriteRecords] : n \in 0..MaxRows }
    /\ wp_out = [called |-> FALSE, ok |-> FALSE]

NextWrite == CallWriteParquet

SpecWrite == InitWrite /\ [][NextWrite]_vars

\* ------------------------------------------------- properties of make_record
\* C1: in every record make_record returns, fuel_units lies in [50, 5000] and
\* price_per_unit in [10, 800], and total_cost is fuel_units * price_per_unit
\* rounded to the cent, a half going up: with the product split into the
\* whole units of fuel and its cents, total_cost less (whole units) * price is
\* the cent amount c with 100c <= cents * price + 50 < 100c + 100.
C1_TotalCostIsRoundedProduct ==
    \A i \in 1..Len(rec) :
        LET r == rec[i]
            exact == (r.fuel_units % 100) * r.price_per_unit
            c == r.total_cost - (r.fuel_units \div 100) * r.price_per_unit
        IN  /\ r.fuel_units \in 5000..500000
            /\ r.price_per_unit \in 1000..80000
            /\ 100 * c <= exact + 50
            /\ exact + 50 < 100 * c + 100

C1_Witness ==
    /\ rec # << >>
    /\ rec[1].fuel_units = 10000
    /\ rec[1].price_per_unit = 1235
    /\ rec[1].total_cost = 123500

\* C8: in every record make_record returns, ship_name is one of the ships
\* FRANCHISE_SHIPS lists for the record's franchise.
C8_ShipBelongsToFranchise ==
    \A i \in 1..Len(rec) :
        /\ rec[i].franchise \in DOMAIN FRANCHISE_SHIPS
        /\ \E j \in 1..Len(FRANCHISE_SHIPS[rec[i].franchise]) :
              FRANCHISE_SHIPS[rec[i].franchise][j] = rec[i].ship_name

C8_Witness ==
    /\ rec # << >>
    /\ rec[1].franchise = "Mass Effect"
    /\ rec[1].ship_name = "SSV Normandy SR-2"

\* C9: in every record make_record returns, arrival_date is the day that
\* holds visited_at, also when the clock has passed midnight by the time the
\* transaction id is stamped.
C9_ArrivalDateIsDateOfVisit ==
    \A i \in 1..Len(rec) :
        /\ rec[i].arrival_date * TicksPerDay <= rec[i].visited_at
        /\ rec[i].visited_at < (rec[i].arrival_date + 1) * TicksPerDay

C9_Witness ==
    /\ rec # << >>
    /\ rec[1].transaction_id.ts >= (rec[1].arrival_date + 1) * TicksPerDay
    /\ rec[1].visited_at < (rec[1].arrival_date + 1) * TicksPerDay

\* ------------------------------------------------- properties of the DAG
BatchMade == task.name = "export_file" /\ task.fault # "mkdir"

\* C6: the batch make_batch(n) returns holds n records when n > 0 and none
\* when n = 0.
C6_BatchHasRequestedLength ==
    BatchMade =>
        /\ task.rows_per_file > 0 => Len(task.records) = task.rows_per_file
        /\ task.rows_per_file = 0 => task.records = << >>

C6_Witness ==
    /\ BatchMade
    /\ task.rows_per_file = 2
    /\ Len(task.records) = 2
    /\ task.records[1] # task.records[2]

KeysOf(rows) == { t.transaction_id : t \in rows }

\* Record i of the last batch has a key the table held before the invocation,
\* or one an earlier record of the batch has.
Duplicate(i) ==
    \/ task.records[i].transaction_id \in KeysOf(task.before)
    \/ \E j \in 1..(i - 1) :
          task.records[j].transaction_id = task.records[i].transaction_id

\* C2: the table never holds two rows of one transaction_id; a row, once in
\* the table, stays as it is through every later upsert; and an export_file
\* whose batch holds a key already present, and in which no call fails, ends
\* without error with every key of the batch in the table.
C2_KeysUnique ==
    \A a \in table, b \in table : a.transaction_id = b.transaction_id => a = b

C2_NoErrorOnDuplicate ==
    ( /\ task.name = "export_file"
      /\ task.fault = "none"
      /\ \E i \in 1..Len(task.records) : Duplicate(i) )
    => /\ task.outcome = "success"
       /\ \A i \in 1..Len(task.records) :
             task.records[i].transaction_id \in KeysOf(table)

\* C2: the three parts together: unique keys and no error on a duplicate in
\* every state, and every row of the table kept as it is by every step.
C2_UpsertIsInsertOrIgnore ==
    /\ [](C2_KeysUnique /\ C2_NoErrorOnDuplicate)
    /\ [][\A t \in table : t \in table']_vars

C2_Witness ==
    /\ task.name = "export_file"
    /\ task.outcome = "success"
    /\ \E i \in 1..Len(task.records) :
          \E t \in task.before :
             /\ t.transaction_id = task.records[i].transaction_id
             /\ t # stored_row(row_tuple(task.records[i]))
             /\ t \in table

\* C3: no invocation of create_table or export_file ends with the connection
\* it opened still open.
C3_ConnectionAlwaysClosed == task.conn # "open"

\* C4: export_file given a row count that is not positive ends with an error,
\* writes no file and sends no row to the sink.
C4_NonPositiveRowsRejected ==
    (task.name = "export_file" /\ task.rows_per_file <= 0)
    => (task.outcome = "error" /\ ~task.wrote /\ task.sent = 0)

\* C7: every record export_file inserts is stored column by column under the
\* record field of the same name (dock as dock_bay and dock_level), and
\* fuel_units, price_per_unit and total_cost are stored with the record's
\* value.
C7_RowKeepsRecordValues ==
    (task.name = "export_file" /\ task.outcome = "success")
    => \A i \in 1..Len(task.records) :
          ~Duplicate(i) =>
             \E t \in table :
                LET r == task.records[i]
                IN  /\ t.transaction_id = r.transaction_id
                    /\ t.station_id = r.station_id
                    /\ t.dock_bay = r.dock.bay
                    /\ t.dock_level = r.dock.level
                    /\ t.ship_name = r.ship_name
                    /\ t.franchise = r.franchise
                    /\ t.captain_name = r.captain_name
                    /\ t.species = r.species
                    /\ t.fuel_type = r.fuel_type
                    /\ t.services = r.services
                    /\ t.is_emergency = r.is_emergency
                    /\ t.visited_at = r.visited_at
                    /\ t.arrival_date = r.arrival_date
                    /\ t.coords_x = r.coords_x
                    /\ t.coords_y = r.coords_y
                    /\ t.price_per_unit = r.price_per_unit
                    /\ t.total_cost = r.total_cost
                    /\ t.fuel_units = r.fuel_units

\* ------------------------------------------------- properties of main()
\* C10 as claimed: Ctrl+C, wherever main() is when it arrives, ends the run as
\* a clean shutdown.
C10_AnyInterruptIsClean == intr_at # "none" => main_exit = "clean"

\* C10: main() ensures the directory before the loop; each pass of the loop
\* makes one batch and writes one file, then sleeps, then starts the next
\* pass, unless a call raises; Ctrl+C arriving inside the loop (in the batch,
\* the write or the sleep) ends the run as a clean shutdown, and nothing else
\* does; Ctrl+C arriving before the loop ends the run with KeyboardInterrupt.
C10_State ==
    /\ intr_at \in {"loop", "sleep"} => main_exit = "clean"
    /\ main_exit = "clean" => intr_at \in {"loop", "sleep"}
    /\ intr_at = "start" => main_exit = "KeyboardInterrupt"
    /\ main_pc \in {"loop", "sleep"} => dir_exists
    /\ files # << >> => dir_exists

C10_Step ==
    /\ (main_pc = "loop" /\ main_pc' # "loop" /\ main_exit' = "running")
          => /\ main_pc' = "sleep"
             /\ filename_at(clock') \in DOMAIN files'
             /\ files'[filename_at(clock')].readable
    /\ (main_pc = "sleep" /\ main_pc' # "sleep" /\ main_exit' = "running")
          => main_pc' = "loop"
    /\ (main_pc = "start" /\ main_pc' # "start" /\ main_exit' = "running")
          => main_pc' = "loop"

\* C10: the above, in every state and at every step of main().
C10_LoopUntilInterruptInsideTry == []C10_State /\ [][C10_Step]_vars

C10_Witness ==
    /\ intr_at = "sleep"
    /\ main_exit = "clean"
    /\ Cardinality(DOMAIN files) >= 2

\* ------------------------------------------------- properties of write_parquet
\* C5: write_parquet given a batch with a record that does not match the
\* schema raises, and leaves no readable file for the batch.
C5_SchemaViolationAborts ==
    (wp_out.called /\ \E i \in 1..Len(wp_in) : ~conforms(wp_in[i]))
    => /\ ~wp_out.ok
       /\ \/ filename_at(clock) \notin DOMAIN files
          \/ ~files[filename_at(clock)].readable
====
